---- MODULE Spec2Model ----
(***************************************************************************)
(* A model of prefect.client.Client (src/src/prefect/client.py): the token *)
(* held by one Client, the credential file, and the operations _request    *)
(* (with its 401 refresh-and-retry path), post, graphql, login, logout and *)
(* refresh_token, and Secret.get.  The server is the environment: every    *)
(* response status and every response body is chosen nondeterministically. *)
(***************************************************************************)
EXTENDS Integers, Sequences, FiniteSets, TLC

VARIABLES
    token,      \* the Client's `token` attribute (NoAttr once deleted)
    file,       \* contents of ~/.prefect/.credentials/auth_token, or NoFile
    pc,         \* per caller: position inside _request
    call,       \* per caller: the call in progress or last made, with the
                \* token and file as they were when it was entered (for a
                \* construction: with the explicit token argument)
    net,        \* the transport's log of the network calls of those calls
    outcome,    \* per caller: what the call's _request (or login, logout,
                \* refresh_token) returned or raised; post and graphql
                \* hand an error raised by _request on unchanged
    result,     \* per caller: what the called method itself handed back
                \* (post: the decoded body; graphql: the data or the error)
    config,     \* prefect.config.cloud: auth_token, use_local_secrets
    context,    \* prefect.context["_secrets"]: secret name -> value
    sget        \* the last Secret.get(): its name, branch and value

vars == <<token, file, pc, call, net, outcome, result, config, context,
          sget>>

----------------------------------------------------------------------------
(* Bounds *)

\* non-empty token strings the server may issue: "t1" .. "t<MaxToken>"
MaxToken == 2

----------------------------------------------------------------------------
(* Values *)

\* Python's None
None == "<None>"
\* the attribute `token` does not exist on the instance (after `del`)
NoAttr == "<no attribute>"
\* the credential file does not exist
NoFile == "<no file>"

\* token strings; "" is the empty (falsy) string
TokenStrings == {""} \cup {"t" \o ToString(i) : i \in 1..MaxToken}

\* callers of the one Client; MainCaller is the single thread of the
\* synchronous call model
Callers == {"main", "other"}
MainCaller == "main"

\* HTTP statuses a protected request may be answered with
Statuses == {200, 204, 304, 401, 404, 500}
\* HTTP statuses the login and refresh endpoints may answer with
AuthStatuses == {200, 401, 500}

Unauthorized == 401

\* bodies of login / refresh responses: a JSON object holding a token
\* string, a JSON object with no (or a null) token, or a body that is not
\* JSON
NoTokenBody == "<json without token>"
NotJson == "<not json>"
AuthBodies == TokenStrings \cup {NoTokenBody, NotJson}

\* bodies of the responses to protected requests: empty text, text that is
\* not JSON, or a JSON object with or without the keys `data` and `errors`
JsonEmpty == "{}"
JsonData == "{data}"
JsonErrors == "{errors}"
JsonBoth == "{data, errors}"
ReqBodies == {"", NotJson, JsonEmpty, JsonData, JsonErrors, JsonBoth}

\* a key that a decoded body, or the secrets mapping, does not hold
Absent == "<absent>"
\* the values held under `data` and `errors` in the bodies above
DataValue == "d1"
ErrorsValue == "e1"

\* secret names and the values the ambient mapping may hold for them
Names == {"n1", "n2"}
SecretValues == {"v1", "v2"}

Methods == {"GET", "POST", "DELETE", "PUT"}
RequestApis == {"_request", "post", "graphql"}

\* the request carries HTTP basic auth, not a bearer token
BasicAuth == "<basic auth>"

----------------------------------------------------------------------------
(* Pure helpers *)

\* faulty variant of Construct: the credential file is not consulted
ConstructIgnoresFile(arg, cfg, f) ==
    IF arg # None THEN arg
    ELSE IF cfg # None THEN cfg
    ELSE None

\* Client.__init__: explicit argument, then configuration, then the file
Construct(arg, cfg, f) ==
    IF arg # None THEN arg
    ELSE IF cfg # None THEN cfg
    ELSE IF f # NoFile THEN f
    ELSE None

\* "{}".format(v): the text placed after "Bearer " in the header
Format(v) == IF v = None THEN "None" ELSE v

\* Python truthiness of an Optional[str]
Truthy(v) == v # None /\ v # ""

\* faulty variant of RaisesForStatus: only server errors raise
RaisesForServerErrorOnly(status) == status >= 500 /\ status < 600

\* requests' Response.raise_for_status raises HTTPError for 4xx and 5xx
RaisesForStatus(status) == status >= 400 /\ status < 600

\* requests' Response.ok: raise_for_status does not raise
Ok(status) == ~RaisesForStatus(status)

\* response.json() raises when the body is not JSON
Decodable(body) == body # NotJson

\* response.json().get("token")
JsonGetToken(body) == IF body = NoTokenBody THEN None ELSE body

\* the method dispatch of request_fn: anything else raises ValueError
ValidMethod(method) == method \in {"GET", "POST", "DELETE"}

\* faulty variant of ShouldRefresh: refresh on every HTTPError
ShouldRefreshOnAnyError(status) == TRUE

\* the except clause of _request refreshes on this status only
ShouldRefresh(status) == status = Unauthorized

\* post() always sends POST; graphql() goes through post()
MethodsOf(api) == IF api = "_request" THEN Methods ELSE {"POST"}

----------------------------------------------------------------------------
(* Outcomes and log entries *)

NoOutcome == [kind |-> "none", exc |-> "", status |-> 0, attempt |-> 0]
Pending == [kind |-> "pending", exc |-> "", status |-> 0, attempt |-> 0]
\* the call returned; for _request, the response of the given attempt
Returned(status, attempt) ==
    [kind |-> "returned", exc |-> "", status |-> status, attempt |-> attempt]
Raised(exc) == [kind |-> "raised", exc |-> exc, status |-> 0, attempt |-> 0]
\* requests.HTTPError carrying the response of the given attempt
RaisedHTTP(status, attempt) ==
    [kind |-> "raised", exc |-> "HTTPError", status |-> status,
     attempt |-> attempt]

Unauthenticated == "ValueError: Call Client.login() to set the client token."
InvalidMethod == "ValueError: Invalid method"
LoginFailed == "ValueError: Could not log in."
AttributeError == "AttributeError: token"
JSONDecodeError == "JSONDecodeError"

\* a decoded JSON object, by its keys `data` and `errors`
Dict(data, errors) == [data |-> data, errors |-> errors]
EmptyDict == Dict(Absent, Absent)

\* response.json() of a protected response
Json(body) ==
    Dict(IF body \in {JsonData, JsonBoth} THEN DataValue ELSE Absent,
         IF body \in {JsonErrors, JsonBoth} THEN ErrorsValue ELSE Absent)

NoResult == [kind |-> "none", exc |-> "", dict |-> EmptyDict, value |-> None]
ResPending ==
    [kind |-> "pending", exc |-> "", dict |-> EmptyDict, value |-> None]
\* the method returned a dict (post) or a value (graphql: the data;
\* _request: the response, by its text)
ResReturned(dict, value) ==
    [kind |-> "returned", exc |-> "", dict |-> dict, value |-> value]
\* the method raised; `value` is what the exception carries
ResRaised(exc, value) ==
    [kind |-> "raised", exc |-> exc, dict |-> EmptyDict, value |-> value]

GraphQLError == "ValueError: errors"
NoDataError == "AttributeError: data"

\* faulty variant of PostResult: the body is decoded without looking at
\* response.text
PostResultAlwaysDecodes(body) ==
    IF ~Decodable(body) \/ body = "" THEN ResRaised(JSONDecodeError, "")
    ELSE ResReturned(Json(body), None)

\* post() on the response _request returned: {} for an empty text,
\* response.json() otherwise
PostResult(body) ==
    IF body = "" THEN ResReturned(EmptyDict, None)
    ELSE IF ~Decodable(body) THEN ResRaised(JSONDecodeError, "")
    ELSE ResReturned(Json(body), None)

\* faulty variant of GraphqlResults: `data`, when present, is returned and
\* `errors` is looked at only without it
GraphqlPrefersData(posted) ==
    IF posted.kind # "returned" THEN {posted}
    ELSE IF posted.dict.data # Absent
    THEN {ResReturned(EmptyDict, posted.dict.data)}
    ELSE IF posted.dict.errors # Absent
    THEN {ResRaised(GraphQLError, posted.dict.errors)}
    ELSE {ResRaised(NoDataError, ""), ResReturned(EmptyDict, None)}

\* graphql() on what post() handed back: ValueError(result["errors"]) when
\* the key is there, else as_nested_dict(result, GraphQLResult).data.
\* as_nested_dict is not part of client.py: what `.data` gives on a result
\* without that key is left open (it raises, or it gives None).
GraphqlResults(posted) ==
    IF posted.kind # "returned" THEN {posted}
    ELSE IF posted.dict.errors # Absent
    THEN {ResRaised(GraphQLError, posted.dict.errors)}
    ELSE IF posted.dict.data # Absent
    THEN {ResReturned(EmptyDict, posted.dict.data)}
    ELSE {ResRaised(NoDataError, ""), ResReturned(EmptyDict, None)}

\* what the called method hands back, given the outcome of its _request
\* and the body of the response that _request returned
ApiResults(api, out, body) ==
    IF out.kind = "pending" THEN {ResPending}
    ELSE IF out.kind = "raised" THEN {ResRaised(out.exc, "")}
    ELSE IF api = "_request" THEN {ResReturned(EmptyDict, body)}
    ELSE IF api = "post" THEN {PostResult(body)}
    ELSE IF api = "graphql" THEN GraphqlResults(PostResult(body))
    ELSE {ResReturned(EmptyDict, None)}

\* the call of c ends (or goes on) with outcome `out`
Deliver(c, api, out, body) ==
    /\ outcome' = [outcome EXCEPT ![c] = out]
    /\ \E r \in ApiResults(api, out, body) :
          result' = [result EXCEPT ![c] = r]

\* the bodies a response with `status` is modelled with: 204 and 304
\* responses have no body, and the body of a response that
\* raise_for_status rejects is never read
BodiesFor(status) == IF status = 200 THEN ReqBodies ELSE {""}

\* faulty variant of SecretValue: the value of the last local lookup of the
\* same name is kept and handed out again
CachedSecretValue(name) ==
    IF sget.mode = "local" /\ sget.name = name THEN sget.got
    ELSE IF context[name] = Absent THEN None ELSE context[name]

\* secrets.get(name)
SecretValue(name) == IF context[name] = Absent THEN None ELSE context[name]

NoGet ==
    [name |-> "", mode |-> "none", got |-> None,
     at |-> [n \in Names |-> Absent],
     prevName |-> "", prevMode |-> "none", prevGot |-> None]

\* what an operation of the Client leaves alone
ClientFrame == UNCHANGED <<config, context, sget>>

Event(c, to, bearer, status, body) ==
    [by |-> c, to |-> to, bearer |-> bearer, status |-> status, body |-> body]

\* the log without the entries of caller c's previous call
Fresh(c) == SelectSeq(net, LAMBDA e : e.by # c)

Enter(c, api, method) ==
    call' = [call EXCEPT ![c] =
                [api |-> api, method |-> method, token0 |-> token,
                 file0 |-> file, arg |-> None]]

\* the result of one request_fn call that got `status` on the wire
RequestFnOutcome(status, attempt) ==
    IF RaisesForStatus(status)
    THEN RaisedHTTP(status, attempt)
    ELSE Returned(status, attempt)

----------------------------------------------------------------------------
(* Observations on the log *)

\* the network calls of caller c's current (or last) call
NetOf(c) == SelectSeq(net, LAMBDA e : e.by = c)
Dispatches(c) == Len(SelectSeq(NetOf(c), LAMBDA e : e.to = "request"))
Refreshes(c) == Len(SelectSeq(NetOf(c), LAMBDA e : e.to = "refresh_token"))
Done(c) == pc[c] = "idle" /\ outcome[c].kind \in {"returned", "raised"}
InRequest(c) == call[c].api \in RequestApis

----------------------------------------------------------------------------
(* Operations *)

\* a Client has been constructed, no call has been made
InitClient ==
    /\ file \in {NoFile} \cup TokenStrings
    /\ \E arg \in {None} \cup TokenStrings :
          /\ token = Construct(arg, config.auth_token, file)
          /\ call = [c \in Callers |->
                       IF c = MainCaller
                       THEN [api |-> "__init__", method |-> "",
                             token0 |-> None, file0 |-> file, arg |-> arg]
                       ELSE [api |-> "", method |-> "", token0 |-> None,
                             file0 |-> NoFile, arg |-> None]]
    /\ pc = [c \in Callers |-> "idle"]
    /\ net = <<>>
    /\ outcome = [c \in Callers |->
                    IF c = MainCaller THEN Returned(0, 0) ELSE NoOutcome]
    /\ result = [c \in Callers |->
                   IF c = MainCaller THEN ResReturned(EmptyDict, None)
                   ELSE NoResult]
    /\ sget = NoGet

\* no token is configured
Init ==
    /\ config = [auth_token |-> None, use_local_secrets |-> FALSE]
    /\ context = [n \in Names |-> Absent]
    /\ InitClient

\* Client(token=arg): a new Client takes the place of the current one
NewClient(c) ==
    /\ pc[c] = "idle"
    /\ \E arg \in {None} \cup TokenStrings :
          /\ token' = Construct(arg, config.auth_token, file)
          /\ call' = [call EXCEPT ![c] =
                         [api |-> "__init__", method |-> "",
                          token0 |-> token, file0 |-> file, arg |-> arg]]
    /\ net' = Fresh(c)
    /\ Deliver(c, "__init__", Returned(0, 0), "")
    /\ UNCHANGED <<file, pc, config, context, sget>>

\* faulty variant of RequestCall: the request is sent before the method is
\* found to be invalid
RequestCallSendsFirst(c, api, method) ==
    /\ Enter(c, api, method)
    /\ IF token = NoAttr
       THEN /\ Deliver(c, api, Raised(AttributeError), "")
            /\ net' = Fresh(c)
            /\ pc' = [pc EXCEPT ![c] = "idle"]
       ELSE IF token = None
       THEN /\ Deliver(c, api, Raised(Unauthenticated), "")
            /\ net' = Fresh(c)
            /\ pc' = [pc EXCEPT ![c] = "idle"]
       ELSE \E status \in Statuses : \E body \in BodiesFor(status) :
            /\ net' = Append(Fresh(c),
                        Event(c, "request", Format(token), status, body))
            /\ IF ~ValidMethod(method)
               THEN /\ pc' = [pc EXCEPT ![c] = "idle"]
                    /\ Deliver(c, api, Raised(InvalidMethod), "")
               ELSE IF RaisesForStatus(status) /\ ShouldRefresh(status)
               THEN /\ pc' = [pc EXCEPT ![c] = "refresh"]
                    /\ Deliver(c, api, Pending, "")
               ELSE /\ pc' = [pc EXCEPT ![c] = "idle"]
                    /\ Deliver(c, api, RequestFnOutcome(status, 1), body)
    /\ UNCHANGED <<token, file>>
    /\ ClientFrame

\* _request(method, ...) entered through `api`, up to the end of its first
\* request_fn call
RequestCall(c, api, method) ==
    /\ Enter(c, api, method)
    /\ IF token = NoAttr
       THEN /\ Deliver(c, api, Raised(AttributeError), "")
            /\ net' = Fresh(c)
            /\ pc' = [pc EXCEPT ![c] = "idle"]
       ELSE IF token = None
       THEN /\ Deliver(c, api, Raised(Unauthenticated), "")
            /\ net' = Fresh(c)
            /\ pc' = [pc EXCEPT ![c] = "idle"]
       ELSE IF ~ValidMethod(method)
       THEN /\ Deliver(c, api, Raised(InvalidMethod), "")
            /\ net' = Fresh(c)
            /\ pc' = [pc EXCEPT ![c] = "idle"]
       ELSE \E status \in Statuses : \E body \in BodiesFor(status) :
            /\ net' = Append(Fresh(c),
                        Event(c, "request", Format(token), status, body))
            /\ IF RaisesForStatus(status) /\ ShouldRefresh(status)
               THEN /\ pc' = [pc EXCEPT ![c] = "refresh"]
                    /\ Deliver(c, api, Pending, "")
               ELSE /\ pc' = [pc EXCEPT ![c] = "idle"]
                    /\ Deliver(c, api, RequestFnOutcome(status, 1), body)
    /\ UNCHANGED <<token, file>>
    /\ ClientFrame

\* _request, post or graphql called on the Client (post and graphql enter
\* _request with method POST)
Request(c) ==
    /\ pc[c] = "idle"
    /\ \E api \in RequestApis : \E method \in MethodsOf(api) :
          RequestCall(c, api, method)

\* refresh_token(): what it raises, if anything ("" when it returns)
RefreshRaises(body) ==
    IF token = NoAttr THEN AttributeError
    ELSE IF ~Decodable(body) THEN JSONDecodeError
    ELSE ""

\* refresh_token(): its effect on the token and on the wire
RefreshEffect(c, log, status, body) ==
    /\ net' = IF token = NoAttr THEN log
              ELSE Append(log,
                     Event(c, "refresh_token", Format(token), status, body))
    /\ token' = IF RefreshRaises(body) = "" THEN JsonGetToken(body) ELSE token
    /\ file' = file

\* variant of RequestRefresh in which a caller that finds a refresh already
\* made by another caller does not refresh again
RequestRefreshCoalesced(c) ==
    /\ pc[c] = "refresh"
    /\ IF \E i \in 1..Len(net) :
             net[i].to = "refresh_token" /\ net[i].by # c
       THEN /\ pc' = [pc EXCEPT ![c] = "retry"]
            /\ UNCHANGED <<net, token, file, outcome, result>>
       ELSE \E status \in AuthStatuses, body \in AuthBodies :
            /\ RefreshEffect(c, net, status, body)
            /\ IF RefreshRaises(body) = ""
               THEN /\ pc' = [pc EXCEPT ![c] = "retry"]
                    /\ UNCHANGED <<outcome, result>>
               ELSE /\ pc' = [pc EXCEPT ![c] = "idle"]
                    /\ Deliver(c, call[c].api, Raised(RefreshRaises(body)),
                               "")
    /\ UNCHANGED call
    /\ ClientFrame

\* _request's except clause on a 401: self.refresh_token()
RequestRefresh(c) ==
    /\ pc[c] = "refresh"
    /\ \E status \in AuthStatuses, body \in AuthBodies :
        /\ RefreshEffect(c, net, status, body)
        /\ IF RefreshRaises(body) = ""
           THEN /\ pc' = [pc EXCEPT ![c] = "retry"]
                /\ UNCHANGED <<outcome, result>>
           ELSE /\ pc' = [pc EXCEPT ![c] = "idle"]
                /\ Deliver(c, call[c].api, Raised(RefreshRaises(body)), "")
    /\ UNCHANGED call
    /\ ClientFrame

\* faulty variant of RequestRetry: the retried response is dropped and the
\* handler falls through to `raise`, re-raising the first HTTPError
RequestRetryReraises(c) ==
    /\ pc[c] = "retry"
    /\ pc' = [pc EXCEPT ![c] = "idle"]
    /\ IF token = NoAttr
       THEN /\ Deliver(c, call[c].api, Raised(AttributeError), "")
            /\ net' = net
       ELSE \E status \in Statuses : \E body \in BodiesFor(status) :
            /\ net' = Append(net,
                        Event(c, "request", Format(token), status, body))
            /\ Deliver(c, call[c].api, RaisedHTTP(Unauthorized, 1), "")
    /\ UNCHANGED <<token, file, call>>
    /\ ClientFrame

\* faulty variant of RequestRetry: the Authorization header is built once,
\* before the first attempt, and reused for the retry
RequestRetryStaleHeader(c) ==
    /\ pc[c] = "retry"
    /\ pc' = [pc EXCEPT ![c] = "idle"]
    /\ IF token = NoAttr
       THEN /\ Deliver(c, call[c].api, Raised(AttributeError), "")
            /\ net' = net
       ELSE \E status \in Statuses : \E body \in BodiesFor(status) :
            /\ net' = Append(net,
                        Event(c, "request", Format(call[c].token0), status,
                              body))
            /\ Deliver(c, call[c].api, RequestFnOutcome(status, 2), body)
    /\ UNCHANGED <<token, file, call>>
    /\ ClientFrame

\* _request's except clause on a 401: return request_fn()
RequestRetry(c) ==
    /\ pc[c] = "retry"
    /\ pc' = [pc EXCEPT ![c] = "idle"]
    /\ IF token = NoAttr
       THEN /\ Deliver(c, call[c].api, Raised(AttributeError), "")
            /\ net' = net
       ELSE \E status \in Statuses : \E body \in BodiesFor(status) :
            /\ net' = Append(net,
                        Event(c, "request", Format(token), status, body))
            /\ Deliver(c, call[c].api, RequestFnOutcome(status, 2), body)
    /\ UNCHANGED <<token, file, call>>
    /\ ClientFrame

\* a direct call of refresh_token()
RefreshToken(c) ==
    /\ pc[c] = "idle"
    /\ Enter(c, "refresh_token", "")
    /\ \E status \in AuthStatuses, body \in AuthBodies :
        /\ RefreshEffect(c, Fresh(c), status, body)
        /\ Deliver(c, "refresh_token",
                   IF RefreshRaises(body) = "" THEN Returned(0, 0)
                   ELSE Raised(RefreshRaises(body)), "")
    /\ pc' = pc
    /\ ClientFrame

\* faulty variant of Login: the token is taken from the body before the
\* status is looked at
LoginAssignsBeforeCheck(c) ==
    /\ pc[c] = "idle"
    /\ Enter(c, "login", "")
    /\ \E status \in AuthStatuses, body \in AuthBodies :
        /\ net' = Append(Fresh(c), Event(c, "login", BasicAuth, status, body))
        /\ IF ~Decodable(body)
           THEN /\ Deliver(c, "login", Raised(JSONDecodeError), "")
                /\ UNCHANGED <<token, file>>
           ELSE /\ token' = JsonGetToken(body)
                /\ file' = IF Truthy(JsonGetToken(body))
                           THEN JsonGetToken(body) ELSE file
                /\ Deliver(c, "login",
                           IF Ok(status) THEN Returned(0, 0)
                           ELSE Raised(LoginFailed), "")
    /\ pc' = pc
    /\ ClientFrame

Login(c) ==
    /\ pc[c] = "idle"
    /\ Enter(c, "login", "")
    /\ \E status \in AuthStatuses, body \in AuthBodies :
        /\ net' = Append(Fresh(c), Event(c, "login", BasicAuth, status, body))
        /\ IF ~Ok(status)
           THEN /\ Deliver(c, "login", Raised(LoginFailed), "")
                /\ UNCHANGED <<token, file>>
           ELSE IF ~Decodable(body)
           THEN /\ Deliver(c, "login", Raised(JSONDecodeError), "")
                /\ UNCHANGED <<token, file>>
           ELSE /\ token' = JsonGetToken(body)
                /\ file' = IF Truthy(JsonGetToken(body))
                           THEN JsonGetToken(body) ELSE file
                /\ Deliver(c, "login", Returned(0, 0), "")
    /\ pc' = pc
    /\ ClientFrame

Logout(c) ==
    /\ pc[c] = "idle"
    /\ Enter(c, "logout", "")
    /\ file' = NoFile
    /\ net' = Fresh(c)
    /\ IF token = NoAttr
       THEN /\ Deliver(c, "logout", Raised(AttributeError), "")
            /\ token' = token
       ELSE /\ Deliver(c, "logout", Returned(0, 0), "")
            /\ token' = NoAttr
    /\ pc' = pc
    /\ ClientFrame

----------------------------------------------------------------------------
(* The synchronous, single-threaded call model: one caller, one call at a  *)
(* time.                                                                   *)

Next ==
    \/ NewClient(MainCaller)
    \/ Request(MainCaller)
    \/ RequestRefresh(MainCaller)
    \/ RequestRetry(MainCaller)
    \/ RefreshToken(MainCaller)
    \/ Login(MainCaller)
    \/ Logout(MainCaller)

Spec == Init /\ [][Next]_vars

----------------------------------------------------------------------------
(* Secret.get, with the ambient secrets changing between calls.            *)

\* Secret(name).get(): the local lookup, or the construction of a Client
\* for the remote query
SecretGet(c) ==
    /\ pc[c] = "idle"
    /\ Enter(c, "Secret.get", "")
    /\ net' = Fresh(c)
    /\ \E name \in Names :
        IF config.use_local_secrets = TRUE
        THEN /\ sget' = [name |-> name, mode |-> "local",
                         got |-> SecretValue(name), at |-> context,
                         prevName |-> sget.name, prevMode |-> sget.mode,
                         prevGot |-> sget.got]
             /\ outcome' = [outcome EXCEPT ![c] = Returned(0, 0)]
             /\ result' = [result EXCEPT ![c] =
                              ResReturned(EmptyDict, SecretValue(name))]
             /\ UNCHANGED <<token, pc>>
        ELSE /\ sget' = [name |-> name, mode |-> "remote", got |-> None,
                         at |-> context, prevName |-> sget.name,
                         prevMode |-> sget.mode, prevGot |-> sget.got]
             /\ token' = Construct(None, config.auth_token, file)
             /\ pc' = [pc EXCEPT ![c] = "secret"]
             /\ outcome' = [outcome EXCEPT ![c] = Pending]
             /\ result' = [result EXCEPT ![c] = ResPending]
    /\ UNCHANGED <<file, config, context>>

\* Secret.get(), remote branch: client.graphql(...) on the new Client; what
\* graphql hands back is what get() hands back
SecretGraphql(c) ==
    /\ pc[c] = "secret"
    /\ RequestCall(c, "graphql", "POST")

\* the environment changes prefect.context["_secrets"]
SetSecret ==
    /\ \A c \in Callers : pc[c] = "idle"
    /\ \E n \in Names, v \in SecretValues \cup {Absent} :
          /\ context[n] # v
          /\ context' = [context EXCEPT ![n] = v]
    /\ UNCHANGED <<token, file, pc, call, net, outcome, result, config, sget>>

InitSecret ==
    /\ config \in [auth_token : {None, "t1"}, use_local_secrets : BOOLEAN]
    /\ context \in [Names -> SecretValues \cup {Absent}]
    /\ InitClient
    /\ call[MainCaller].arg = None
    /\ file \in {NoFile, "t1"}

NextSecret ==
    \/ SecretGet(MainCaller)
    \/ SecretGraphql(MainCaller)
    \/ RequestRefresh(MainCaller)
    \/ RequestRetry(MainCaller)
    \/ SetSecret

SpecSecret == InitSecret /\ [][NextSecret]_vars

----------------------------------------------------------------------------
(* Two callers sharing one Client, each making one GET through _request,   *)
(* their steps interleaved; the server answers 200 or 401 and every        *)
(* refresh yields a token.                                                 *)

ConcScope ==
    /\ \A i \in 1..Len(net) :
          /\ net[i].to = "request" =>
                (net[i].status \in {200, Unauthorized} /\ net[i].body = "")
          /\ net[i].to = "refresh_token" =>
                (/\ net[i].status = 200
                 /\ Decodable(net[i].body)
                 /\ Truthy(JsonGetToken(net[i].body)))
    /\ \A c \in Callers :
          InRequest(c) => (call[c].api = "_request" /\ call[c].method = "GET")

InitConc ==
    /\ config = [auth_token |-> None, use_local_secrets |-> FALSE]
    /\ context = [n \in Names |-> Absent]
    /\ InitClient
    /\ Truthy(token)
    /\ file = NoFile

\* each caller makes one call; the steps are those of _request
ConcRequest(c) == ~InRequest(c) /\ Request(c) /\ ConcScope'
ConcRefresh(c) == RequestRefresh(c) /\ ConcScope'
ConcRetry(c) == RequestRetry(c) /\ ConcScope'

NextConc ==
    \E c \in Callers :
        \/ ConcRequest(c)
        \/ ConcRefresh(c)
        \/ ConcRetry(c)

SpecConc == InitConc /\ [][NextConc]_vars

----------------------------------------------------------------------------
(* Construction under every configuration: Clients are constructed, and    *)
(* login and logout write and delete the credential file in between.       *)

InitCtor ==
    /\ config \in [auth_token : {None} \cup TokenStrings,
                   use_local_secrets : {FALSE}]
    /\ context = [n \in Names |-> Absent]
    /\ InitClient

NextCtor ==
    \/ NewClient(MainCaller)
    \/ Login(MainCaller)
    \/ Logout(MainCaller)

SpecCtor == InitCtor /\ [][NextCtor]_vars

----------------------------------------------------------------------------
(* Type invariant *)

TypeOK ==
    /\ token \in {None, NoAttr} \cup TokenStrings
    /\ file \in {NoFile} \cup TokenStrings
    /\ pc \in [Callers -> {"idle", "refresh", "retry", "secret"}]
    /\ Len(net) <= 3 * Cardinality(Callers)

Is2xx(status) == status >= 200 /\ status < 300
HasToken(c) == call[c].token0 \notin {None, NoAttr}
\* the first attempt of c's request was answered 401
First401(c) ==
    /\ InRequest(c)
    /\ Len(NetOf(c)) >= 1
    /\ NetOf(c)[1].to = "request"
    /\ NetOf(c)[1].status = Unauthorized
\* ... and the refresh that followed returned (its body was decoded)
RefreshReturned(c) ==
    /\ First401(c)
    /\ Len(NetOf(c)) >= 2
    /\ NetOf(c)[2].to = "refresh_token"
    /\ Decodable(NetOf(c)[2].body)
\* ... and the retried request was answered
Retried(c) ==
    /\ RefreshReturned(c)
    /\ Len(NetOf(c)) = 3
    /\ NetOf(c)[3].to = "request"

----------------------------------------------------------------------------
(* C1 *)

\* C1 (as claimed): one _request with a token and a valid method dispatches
\* the protected request at most twice and refreshes at most once; it
\* dispatches exactly twice with exactly one refresh exactly when the first
\* response is 401; a 401 on the retry ends the call with HTTPError.
C1_TwoDispatchesIffFirst401 ==
    \A c \in Callers :
        (InRequest(c) /\ HasToken(c) /\ ValidMethod(call[c].method)) =>
            /\ Dispatches(c) <= 2
            /\ Refreshes(c) <= 1
            /\ Done(c) =>
                 ((Dispatches(c) = 2 /\ Refreshes(c) = 1) <=> First401(c))
            /\ (Done(c) /\ Retried(c) /\ NetOf(c)[3].status = Unauthorized) =>
                 outcome[c] = RaisedHTTP(Unauthorized, 2)

\* C1 (amended): at most two dispatches and one refresh; exactly two
\* dispatches with one refresh exactly when the first response is 401 and
\* refresh_token() returned; when refresh_token() raised, the request was
\* dispatched once, refreshed once, and that exception is the outcome; with
\* any other first response there is one dispatch and no refresh; a 401 on
\* the retry ends the call with HTTPError and nothing further is sent.
C1_TwoDispatchesIffRefreshReturned ==
    \A c \in Callers :
        (InRequest(c) /\ HasToken(c) /\ ValidMethod(call[c].method)) =>
            /\ Dispatches(c) <= 2
            /\ Refreshes(c) <= 1
            /\ Done(c) =>
                 /\ (Dispatches(c) = 2 /\ Refreshes(c) = 1)
                        <=> RefreshReturned(c)
                 /\ (First401(c) /\ ~RefreshReturned(c)) =>
                        /\ Dispatches(c) = 1
                        /\ Refreshes(c) = 1
                        /\ outcome[c] = Raised(JSONDecodeError)
                 /\ ~First401(c) =>
                        (Dispatches(c) = 1 /\ Refreshes(c) = 0)
            /\ (Done(c) /\ Retried(c) /\ NetOf(c)[3].status = Unauthorized) =>
                 /\ outcome[c] = RaisedHTTP(Unauthorized, 2)
                 /\ Len(NetOf(c)) = 3

\* a call whose first attempt and retry were both answered 401
C1_Witness ==
    \E c \in Callers :
        /\ Done(c) /\ HasToken(c) /\ Retried(c)
        /\ NetOf(c)[3].status = Unauthorized
        /\ Dispatches(c) = 2 /\ Refreshes(c) = 1

----------------------------------------------------------------------------
(* C2 *)

\* C2 (as claimed): whenever the Client holds no token (the attribute is
\* None, or was deleted by logout), _request / post / graphql raises the
\* ValueError asking for login and makes no network call.
C2_NoTokenIsUnauthenticated ==
    \A c \in Callers :
        (InRequest(c) /\ ~HasToken(c)) =>
            /\ outcome[c] = Raised(Unauthenticated)
            /\ NetOf(c) = <<>>

\* the part of C2 the check at the head of _request does give: with the
\* attribute set to None the call raises that ValueError, and a call made
\* without a token in either form reaches the network in no case
C2_NoneTokenFailsFast ==
    \A c \in Callers :
        /\ (InRequest(c) /\ call[c].token0 = None) =>
              (outcome[c] = Raised(Unauthenticated) /\ NetOf(c) = <<>>)
        /\ (InRequest(c) /\ ~HasToken(c)) =>
              (Done(c) /\ outcome[c].kind = "raised" /\ NetOf(c) = <<>>)

----------------------------------------------------------------------------
(* C3 *)

\* C3 (as claimed): after logout(), and until a login stores a token, every
\* _request / post / graphql raises the ValueError asking for login and
\* makes no network call.
C3_AfterLogoutUnauthenticated ==
    \A c \in Callers :
        (InRequest(c) /\ call[c].token0 = NoAttr) =>
            /\ outcome[c] = Raised(Unauthenticated)
            /\ NetOf(c) = <<>>

----------------------------------------------------------------------------
(* C4 *)

\* C4 (as claimed): logout() called on a Client that is already logged out
\* does not fail and leaves it with no token and no credential file.
C4_LogoutIdempotent ==
    \A c \in Callers :
        (call[c].api = "logout" /\ call[c].token0 = NoAttr) =>
            /\ outcome[c].kind = "returned"
            /\ token = NoAttr
            /\ file = NoFile

----------------------------------------------------------------------------
(* C5 *)

\* the login call of c got an ok response whose body has no token
LoginWithoutToken(c) ==
    /\ call[c].api = "login"
    /\ Len(NetOf(c)) = 1
    /\ Ok(NetOf(c)[1].status)
    /\ NetOf(c)[1].body = NoTokenBody

\* C5 (as claimed): login() on an ok response without a `token` field
\* leaves the in-memory token and the credential file as they were.
C5_LoginWithoutTokenKeepsToken ==
    \A c \in Callers :
        LoginWithoutToken(c) =>
            /\ token = call[c].token0
            /\ file = call[c].file0

----------------------------------------------------------------------------
(* C6 *)

\* the refresh of c's request returned with no token in its body
RefreshGaveNone(c) ==
    /\ RefreshReturned(c)
    /\ JsonGetToken(NetOf(c)[2].body) = None

\* C6 (as claimed): a request whose first attempt got 401 and whose refresh
\* provided no token never returns a response to the caller.
C6_NoTokenRefreshNeverSucceeds ==
    \A c \in Callers :
        (RefreshGaveNone(c) /\ Done(c)) => outcome[c].kind = "raised"

----------------------------------------------------------------------------
(* C7 *)

\* the refresh of c's request returned a token and the retry was answered
\* with a 2xx status
RecoveredBy2xx(c) ==
    /\ Retried(c)
    /\ JsonGetToken(NetOf(c)[2].body) # None
    /\ Is2xx(NetOf(c)[3].status)

\* C7: when the first attempt gets 401, the refresh yields a token and the
\* retried request gets 2xx, the call returns the retried response and
\* raises nothing.
C7_TransparentRecovery ==
    \A c \in Callers :
        (Done(c) /\ RecoveredBy2xx(c)) =>
            outcome[c] = Returned(NetOf(c)[3].status, 2)

C7_Witness ==
    \E c \in Callers :
        /\ Done(c) /\ RecoveredBy2xx(c)
        /\ NetOf(c)[3].bearer # NetOf(c)[1].bearer

----------------------------------------------------------------------------
(* C8 *)

\* the first attempt of c's request was answered with `status`
FirstStatus(c) == NetOf(c)[1].status
FirstAnswered(c) ==
    /\ InRequest(c)
    /\ Len(NetOf(c)) >= 1
    /\ NetOf(c)[1].to = "request"

\* what C8 promises of a call
FailsWithoutRecovery(c) ==
    /\ Done(c)
    /\ outcome[c] = RaisedHTTP(FirstStatus(c), 1)
    /\ Refreshes(c) = 0
    /\ Dispatches(c) = 1
    /\ token = call[c].token0

----------------------------------------------------------------------------
(* C9 *)

\* C9: in the 401 recovery cycle the first attempt carries the token T0 the
\* call was entered with, the refresh call carries T0, the stored token then
\* becomes the refresh result T1, and the retried request carries T1.
C9_RecoveryOrder ==
    \A c \in Callers :
        /\ First401(c) =>
              /\ NetOf(c)[1].bearer = Format(call[c].token0)
              /\ pc[c] = "refresh" => token = call[c].token0
        /\ (First401(c) /\ Len(NetOf(c)) >= 2) =>
              /\ NetOf(c)[2].to = "refresh_token"
              /\ NetOf(c)[2].bearer = Format(call[c].token0)
        /\ RefreshReturned(c) =>
              token = JsonGetToken(NetOf(c)[2].body)
        /\ (First401(c) /\ Len(NetOf(c)) >= 3) =>
              /\ Retried(c)
              /\ NetOf(c)[3].bearer = Format(JsonGetToken(NetOf(c)[2].body))
              /\ (JsonGetToken(NetOf(c)[2].body) # call[c].token0) =>
                    NetOf(c)[3].bearer # NetOf(c)[1].bearer

\* a completed recovery in which the refresh replaced T0 by a different T1
C9_Witness ==
    \E c \in Callers :
        /\ Done(c) /\ Retried(c)
        /\ Truthy(call[c].token0)
        /\ Truthy(JsonGetToken(NetOf(c)[2].body))
        /\ JsonGetToken(NetOf(c)[2].body) # call[c].token0

----------------------------------------------------------------------------
(* C10 *)

\* c's call reached the refresh endpoint, which answered with a non-2xx
\* status
RefreshNon2xx(c) ==
    \E i \in 1..Len(NetOf(c)) :
        NetOf(c)[i].to = "refresh_token" /\ ~Is2xx(NetOf(c)[i].status)

\* C10 (as claimed): when the refresh endpoint answers with a non-2xx
\* status, refresh_token() raises, the stored token is not replaced, and
\* inside _request the retried request is never sent.
C10_RefreshChecksStatus ==
    \A c \in Callers :
        RefreshNon2xx(c) =>
            /\ Done(c)
            /\ outcome[c].kind = "raised"
            /\ token = call[c].token0
            /\ Dispatches(c) <= 1

----------------------------------------------------------------------------
(* C11 *)

\* c's call replaced the in-memory token by a non-empty value
ReplacedToken(c) ==
    /\ Done(c)
    /\ call[c].api \in {"login", "refresh_token"} \cup RequestApis
    /\ token # call[c].token0
    /\ Truthy(token)

\* C11 (as claimed): every operation that replaces the in-memory token by a
\* non-empty value (login, refresh, the refresh inside a request) also
\* writes that value to the credential file; logout deletes the file.
C11_ReplacedTokenIsPersisted ==
    \A c \in Callers :
        /\ ReplacedToken(c) => file = token
        /\ (Done(c) /\ call[c].api = "logout") => file = NoFile

----------------------------------------------------------------------------
(* C12 *)

\* the first non-empty value among the argument, the configured token and
\* the contents of the credential file
FirstNonEmpty(arg, cfg, f) ==
    IF Truthy(arg) THEN arg
    ELSE IF Truthy(cfg) THEN cfg
    ELSE IF f # NoFile /\ f # "" THEN f
    ELSE None

\* C12 (as claimed): a constructed Client holds the first non-empty value
\* among the explicit argument, the configured token and the file contents,
\* and no token when all three are absent or empty.
C12_FirstNonEmptyWins ==
    \A c \in Callers :
        call[c].api = "__init__" =>
            token = FirstNonEmpty(call[c].arg, config.auth_token, file)

----------------------------------------------------------------------------
(* C13 *)

\* C13 (as claimed): with any method other than GET, POST and DELETE,
\* _request raises the invalid-method ValueError, sends nothing and leaves
\* the token unchanged.
C13_InvalidMethodAlways ==
    \A c \in Callers :
        (InRequest(c) /\ ~ValidMethod(call[c].method)) =>
            /\ Done(c)
            /\ outcome[c] = Raised(InvalidMethod)
            /\ NetOf(c) = <<>>
            /\ token = call[c].token0

\* C13 (amended): when the Client holds a token, _request with any method
\* other than GET, POST and DELETE raises the invalid-method ValueError,
\* sends nothing and leaves the token unchanged.
C13_InvalidMethodWithToken ==
    \A c \in Callers :
        (InRequest(c) /\ HasToken(c) /\ ~ValidMethod(call[c].method)) =>
            /\ Done(c)
            /\ outcome[c] = Raised(InvalidMethod)
            /\ result[c] = ResRaised(InvalidMethod, "")
            /\ NetOf(c) = <<>>
            /\ token = call[c].token0

C13_Witness ==
    \E c \in Callers :
        /\ InRequest(c) /\ call[c].method = "PUT"
        /\ Truthy(call[c].token0)
        /\ outcome[c] = Raised(InvalidMethod)

----------------------------------------------------------------------------
(* C14 *)

\* _request returned a response to c's call; its body
GotResponse(c) ==
    /\ InRequest(c) /\ Done(c)
    /\ outcome[c].kind = "returned"
LastBody(c) == NetOf(c)[Len(NetOf(c))].body
\* ... and post() decoded it to a dict
Decoded(c) == GotResponse(c) /\ LastBody(c) # "" /\ Decodable(LastBody(c))

\* C14: graphql() on a decoded body with an `errors` key raises the
\* ValueError carrying that key's value, with or without a `data` key; the
\* data is returned only when `errors` is absent.
C14_ErrorsTakePriority ==
    \A c \in Callers :
        call[c].api = "graphql" =>
            /\ (Decoded(c) /\ Json(LastBody(c)).errors # Absent) =>
                  result[c] = ResRaised(GraphQLError,
                                        Json(LastBody(c)).errors)
            /\ (Decoded(c) /\ result[c].kind = "returned") =>
                  Json(LastBody(c)).errors = Absent
            /\ (Decoded(c) /\ Json(LastBody(c)).errors = Absent
                    /\ Json(LastBody(c)).data # Absent) =>
                  result[c] = ResReturned(EmptyDict, Json(LastBody(c)).data)

\* a body with both keys made graphql() raise
C14_Witness ==
    \E c \in Callers :
        /\ call[c].api = "graphql" /\ Decoded(c)
        /\ LastBody(c) = JsonBoth
        /\ result[c].kind = "raised"

----------------------------------------------------------------------------
(* C16 *)

\* C16: post() with a token present, on a 2xx response with an empty body,
\* returns {} and raises nothing, also when that response is the retried
\* one.
C16_EmptyBodyIsEmptyDict ==
    \A c \in Callers :
        (call[c].api = "post" /\ HasToken(c) /\ GotResponse(c)
            /\ Is2xx(outcome[c].status) /\ LastBody(c) = "") =>
            result[c] = ResReturned(EmptyDict, None)

\* the retried request of a post() was answered 2xx with an empty body
C16_Witness ==
    \E c \in Callers :
        /\ call[c].api = "post" /\ GotResponse(c) /\ Retried(c)
        /\ Is2xx(outcome[c].status) /\ LastBody(c) = ""
        /\ outcome[c].attempt = 2

----------------------------------------------------------------------------
(* C18 *)

\* the login call of c got a response that is not ok
LoginRejected(c) ==
    /\ call[c].api = "login"
    /\ Len(NetOf(c)) = 1
    /\ ~Ok(NetOf(c)[1].status)

----------------------------------------------------------------------------
(* C19 *)

\* the step constructs a Client without an explicit token
ConstructsWithoutArg(c) ==
    /\ call'[c] # call[c]
    /\ call'[c].api = "__init__"
    /\ call'[c].arg = None

\* the last call of c was a login that stored the non-empty token it got
LoggedIn(c) ==
    /\ call[c].api = "login"
    /\ outcome[c].kind = "returned"
    /\ Truthy(JsonGetToken(NetOf(c)[1].body))

\* the token stored by the step was received from the login or refresh
\* endpoint in c's call
TokenFromServer(c) ==
    \E i \in 1..Len(NetOf(c)') :
        /\ NetOf(c)'[i].to \in {"login", "refresh_token"}
        /\ token' = JsonGetToken(NetOf(c)'[i].body)

\* C19: with no configured token, a Client constructed without a token
\* after a login that got the non-empty token T holds T; one constructed
\* after a logout holds no token and its requests raise the ValueError
\* asking for login; and outside construction the in-memory token changes
\* only to a value received from the server or by logout, never to the
\* contents of the file.
C19_FileFeedsConstructionOnly ==
    [][\A c \in Callers :
          /\ (LoggedIn(c) /\ ConstructsWithoutArg(c)) =>
                token' = JsonGetToken(NetOf(c)[1].body)
          /\ (call[c].api = "logout" /\ ConstructsWithoutArg(c)) =>
                token' = None
          /\ (InRequest(c)' /\ call'[c].token0 = None) =>
                outcome'[c] = Raised(Unauthenticated)
          /\ (call'[c] # call[c] /\ call'[c].api # "__init__"
                 /\ token' # token) =>
                (token' = NoAttr \/ TokenFromServer(c))]_vars

\* a Client constructed without a token after a login holds the token that
\* the login wrote to the file
C19_Witness ==
    \E c \in Callers :
        /\ call[c].api = "__init__" /\ call[c].arg = None
        /\ Truthy(token)
        /\ token = call[c].file0
        /\ token = call[c].token0

----------------------------------------------------------------------------
(* C20 *)

\* C20 (as claimed): with no token present and a method outside GET, POST,
\* DELETE, _request raises the ValueError asking for login, not the
\* invalid-method one, and sends nothing.
C20_TokenCheckedFirst ==
    \A c \in Callers :
        (InRequest(c) /\ ~HasToken(c) /\ ~ValidMethod(call[c].method)) =>
            /\ outcome[c] = Raised(Unauthenticated)
            /\ outcome[c] # Raised(InvalidMethod)
            /\ NetOf(c) = <<>>

\* the part of C20 that holds: with the attribute set to None the token
\* check decides, and in no case is the invalid-method error raised or
\* anything sent
C20_NoneTokenCheckedFirst ==
    \A c \in Callers :
        (InRequest(c) /\ ~ValidMethod(call[c].method)) =>
            /\ call[c].token0 = None => outcome[c] = Raised(Unauthenticated)
            /\ ~HasToken(c) =>
                  (outcome[c] # Raised(InvalidMethod) /\ NetOf(c) = <<>>)

----------------------------------------------------------------------------
(* C15 *)

\* the value the mapping seen by the last get() holds for its name
SeenValue == IF sget.at[sget.name] = Absent THEN None ELSE sget.at[sget.name]

\* C15: with use_local_secrets set, Secret.get() makes no network call and
\* constructs no Client, returns None for a name the ambient mapping does
\* not hold and the stored value for one it holds, as the mapping is at the
\* time of the call (nothing is cached).
C15_LocalSecretLookup ==
    \A c \in Callers :
        (call[c].api = "Secret.get" /\ config.use_local_secrets = TRUE) =>
            /\ Done(c)
            /\ NetOf(c) = <<>>
            /\ token = call[c].token0
            /\ file = call[c].file0
            /\ sget.mode = "local"
            /\ sget.got = SeenValue
            /\ result[c] = ResReturned(EmptyDict, SeenValue)

\* two local lookups of one name, the mapping changed in between, the second
\* returned the new value
C15_Witness ==
    \E c \in Callers :
        /\ call[c].api = "Secret.get" /\ config.use_local_secrets = TRUE
        /\ sget.mode = "local" /\ sget.prevMode = "local"
        /\ sget.prevName = sget.name
        /\ sget.prevGot # None
        /\ sget.got # None
        /\ sget.got # sget.prevGot

----------------------------------------------------------------------------
(* C17 *)

\* net[i] is a retried request: its caller sent a request before
IsRetry(i) ==
    /\ net[i].to = "request"
    /\ \E j \in 1..(i - 1) : net[j].to = "request" /\ net[j].by = net[i].by
IsRefresh(i) == net[i].to = "refresh_token"
\* the last refresh logged before net[i]
LastRefreshBefore(i) ==
    CHOOSE j \in 1..(i - 1) :
        IsRefresh(j) /\ \A k \in (j + 1)..(i - 1) : ~IsRefresh(k)

\* C17: with two callers on one Client, every caller whose first attempt
\* got 401 makes a refresh of its own, the stored token is the one of the
\* refresh that completed last, and a retried request carries the token of
\* the last refresh completed before it, whichever caller made it.
C17_LastRefreshWins ==
    /\ \A c \in Callers :
          (First401(c) /\ pc[c] # "refresh") => Refreshes(c) = 1
    /\ \A i \in 1..Len(net) :
          IsRetry(i) =>
              net[i].bearer =
                  Format(JsonGetToken(net[LastRefreshBefore(i)].body))
    /\ (\E i \in 1..Len(net) : IsRefresh(i)) =>
          token = JsonGetToken(net[LastRefreshBefore(Len(net) + 1)].body)

\* both first attempts got 401, both callers refreshed, the second refresh
\* overwrote the token of the first, and the retry of the caller that
\* refreshed first carried the other caller's token
C17_Witness ==
    \E c \in Callers, d \in Callers :
        /\ c # d
        /\ First401(c) /\ First401(d)
        /\ \E j1 \in 1..Len(net), j2 \in 1..Len(net), i \in 1..Len(net) :
              /\ j1 < j2 /\ j2 < i
              /\ IsRefresh(j1) /\ net[j1].by = c
              /\ IsRefresh(j2) /\ net[j2].by = d
              /\ IsRetry(i) /\ net[i].by = c
              /\ JsonGetToken(net[j1].body) # JsonGetToken(net[j2].body)
              /\ net[i].bearer = Format(JsonGetToken(net[j2].body))

====
